---- MODULE Spec2Model ----
(***************************************************************************)
(* The appointment-slot availability and validation engine of the booking  *)
(* assistant: AppointmentManager (models/appointment.py), Scheduler        *)
(* (core/scheduler.py) and the part of BookingAgent (agent/booking_agent.py)*)
(* that creates, reschedules and cancels appointments.                     *)
(*                                                                         *)
(* Dates are day offsets from today (0 = today); a time of day is a number *)
(* of minutes after midnight ("09:15" is 555); a combined date and time is *)
(* date * 1440 + time.  A string that strptime rejects is a date < 0 or a  *)
(* time outside 0..1439 ("25:00" is 1500).                                 *)
(***************************************************************************)
EXTENDS Integers, Sequences, FiniteSets, TLC

VARIABLES
    appointments,      \* AppointmentManager.appointments: the list of records
    nextId,            \* the ids create_appointment has handed out so far
    business_hours,    \* config.settings.BUSINESS_HOURS as loaded at start
    timedelta_resolves,\* whether `datetime.timedelta` resolves in appointment.py
    ret,               \* what the last call returned (or raised) to its caller
    conversations,     \* BookingAgent.conversations: phone -> state
    appointments_file  \* data/appointments.json: whether json.load reads it, and what it holds

vars == <<appointments, nextId, business_hours, timedelta_resolves, ret, conversations,
          appointments_file>>

-----------------------------------------------------------------------------
(* Bounds of the model *)

MaxAppts == 2
TodayWeekday == 5

(* Inputs the actions draw from *)
Clients == {"p1", "p2"}
Nows == {720}
StoreSlots == {<<2, 540>>, <<2, 555>>, <<2, 600>>, <<1, 600>>}
StoreServices == {"general_assistance"}
ReqDates == {-1, 1, 2, 36}
ReqSlots == {<<-1, 600>>, <<2, 1500>>, <<0, 959>>, <<0, 960>>, <<30, 720>>, <<30, 721>>,
             <<1, 600>>, <<1, 959>>, <<1, 960>>, <<2, 420>>, <<2, 600>>, <<36, 600>>}
ReqServices == {"general_assistance", "swedish"}
ReqDurations == {60, 90}
Horizons == {0, 1, 3}
SuggestDates == {1, 2}
SuggestTimes == {-1, 555, 600}
SuggestCounts == {1, 3}

-----------------------------------------------------------------------------
(* config/settings.py *)

CLOSED == -1
MinutesPerDay == 1440
SLOT_DURATION == 30
MIN_BOOKING_ADVANCE == 4
MAX_BOOKING_ADVANCE == 30
MIN_BOOKING_MINUTES == 60

BUSINESS_HOURS ==
    [monday    |-> [start |-> 480, end |-> 1200],
     tuesday   |-> [start |-> 480, end |-> 1200],
     wednesday |-> [start |-> 480, end |-> 1200],
     thursday  |-> [start |-> 480, end |-> 1200],
     friday    |-> [start |-> 480, end |-> 1200],
     saturday  |-> [start |-> 540, end |-> 1080],
     sunday    |-> [start |-> 600, end |-> 960]]

(* The same table with Sunday closed, in the form is_business_day tests for. *)
BUSINESS_HOURS_SUNDAY_CLOSED ==
    [BUSINESS_HOURS EXCEPT !.sunday = [start |-> CLOSED, end |-> CLOSED]]

(* The same table with a Monday from 09:00 and a Sunday of a single slot. *)
BUSINESS_HOURS_SHORT_SUNDAY ==
    [BUSINESS_HOURS EXCEPT !.monday = [start |-> 540, end |-> 1200],
                           !.sunday = [start |-> 600, end |-> 660]]

HoursConfigs == {BUSINESS_HOURS, BUSINESS_HOURS_SUNDAY_CLOSED, BUSINESS_HOURS_SHORT_SUNDAY}

SERVICES ==
    [general_assistance     |-> [duration |-> 60,  price |-> 50],
     administrative_support |-> [duration |-> 60,  price |-> 65],
     lifestyle_management   |-> [duration |-> 90,  price |-> 85],
     event_planning         |-> [duration |-> 120, price |-> 150],
     concierge_services     |-> [duration |-> 60,  price |-> 75],
     senior_care_assistance |-> [duration |-> 120, price |-> 100]]

ServiceKeys == DOMAIN SERVICES

-----------------------------------------------------------------------------
(* Dates and times *)

WEEKDAYS == <<"monday", "tuesday", "wednesday", "thursday", "friday", "saturday", "sunday">>

\* date.strftime("%A").lower()
day_name(date) == WEEKDAYS[((TodayWeekday + date) % 7) + 1]

\* datetime.strptime(f"{date} {time}", "%Y-%m-%d %H:%M") succeeds
strptime_ok(date, time) == date >= 0 /\ time >= 0 /\ time < MinutesPerDay

\* the datetime of a well-formed date and time, in minutes from today 00:00
to_datetime(date, time) == date * MinutesPerDay + time

\* datetime.strftime("%H:%M"): the time of day, the date dropped
strftime_HM(dt) == dt % MinutesPerDay

-----------------------------------------------------------------------------
(* models/appointment.py: AppointmentManager *)

Range(s) == {s[i] : i \in 1..Len(s)}

get_appointments_by_date(appts, date) ==
    SelectSeq(appts, LAMBDA a : a.date = date /\ a.status # "cancelled")

get_appointments_by_date_range(appts, start_date, end_date) ==
    SelectSeq(appts, LAMBDA a : a.status # "cancelled"
                                 /\ start_date <= a.date /\ a.date <= end_date)

get_appointment_by_id(appts, id) ==
    IF \E i \in 1..Len(appts) : appts[i].id = id
    THEN LET i == CHOOSE j \in 1..Len(appts) :
                      appts[j].id = id /\ \A k \in 1..(j-1) : appts[k].id # id
         IN  <<appts[i]>>
    ELSE <<>>

\* lines 167-175: the loop over the appointments of the date
overlap_loop(existing, start_time, end_time) ==
    ~ \E i \in 1..Len(existing) :
          LET appt_start == to_datetime(existing[i].date, existing[i].time)
              appt_end   == appt_start + existing[i].duration
          IN  ~(end_time <= appt_start \/ start_time >= appt_end)

\* check_availability: TRUE / FALSE, or the AttributeError that
\* `datetime.timedelta` raises when `datetime` is the class that line 5 imports
check_availability(appts, resolves, date, time, duration) ==
    LET existing   == get_appointments_by_date(appts, date)
        start_time == to_datetime(date, time)
    IN  IF ~resolves
        THEN "AttributeError"
        ELSE IF overlap_loop(existing, start_time, start_time + duration)
             THEN "True" ELSE "False"

\* lines 186-193: the times of day one appointment marks as booked
RECURSIVE mark_booked(_, _, _)
mark_booked(current, appt_end, slot_duration) ==
    IF current < appt_end
    THEN {strftime_HM(current)} \cup mark_booked(current + slot_duration, appt_end, slot_duration)
    ELSE {}

booked_slots(existing, slot_duration) ==
    UNION { LET appt_start == to_datetime(existing[i].date, existing[i].time)
            IN  mark_booked(appt_start, appt_start + existing[i].duration, slot_duration)
            : i \in 1..Len(existing) }

\* the loop of lines 199-207 leaving room for one slot, not for 60 minutes
RECURSIVE generate_slots_room_for_a_slot(_, _, _, _)
generate_slots_room_for_a_slot(current, close_time, slot_duration, booked) ==
    IF current + slot_duration <= close_time
    THEN (IF strftime_HM(current) \notin booked THEN <<strftime_HM(current)>> ELSE <<>>)
         \o generate_slots_room_for_a_slot(current + slot_duration, close_time,
                                           slot_duration, booked)
    ELSE <<>>

\* lines 199-207: the loop from the opening time
RECURSIVE generate_slots(_, _, _, _)
generate_slots(current, close_time, slot_duration, booked) ==
    IF current + MIN_BOOKING_MINUTES <= close_time
    THEN (IF strftime_HM(current) \notin booked THEN <<strftime_HM(current)>> ELSE <<>>)
         \o generate_slots(current + slot_duration, close_time, slot_duration, booked)
    ELSE <<>>

AppointmentManager_get_available_slots(appts, date, opening_time, closing_time, slot_duration) ==
    generate_slots(opening_time, closing_time, slot_duration,
                   booked_slots(get_appointments_by_date(appts, date), slot_duration))

-----------------------------------------------------------------------------
(* core/scheduler.py: Scheduler *)

\* is_business_day with no day closed
is_business_day_every_day(hours, date) == TRUE

is_business_day(hours, date) == hours[day_name(date)].start # CLOSED

get_business_hours(hours, date) ==
    <<hours[day_name(date)].start, hours[day_name(date)].end>>

\* is_valid_booking_time with the lower bound exclusive
is_valid_booking_time_strictly_after(now, requested_datetime) ==
    /\ now + MIN_BOOKING_ADVANCE * 60 < requested_datetime
    /\ requested_datetime <= now + MAX_BOOKING_ADVANCE * MinutesPerDay

is_valid_booking_time(now, requested_datetime) ==
    /\ now + MIN_BOOKING_ADVANCE * 60 <= requested_datetime
    /\ requested_datetime <= now + MAX_BOOKING_ADVANCE * MinutesPerDay

\* is_within_business_hours that compares with the opening time only
is_within_business_hours_opening_only(hours, date, time) ==
    IF ~is_business_day(hours, date) THEN FALSE
    ELSE get_business_hours(hours, date)[1] <= time

\* is_within_business_hours with the closing time inside the range
is_within_business_hours_closing_included(hours, date, time) ==
    IF ~is_business_day(hours, date)
    THEN FALSE
    ELSE LET h == get_business_hours(hours, date)
         IN  h[1] <= time /\ time <= h[2]

is_within_business_hours(hours, date, time) ==
    IF ~is_business_day(hours, date)
    THEN FALSE
    ELSE LET h == get_business_hours(hours, date)
         IN  h[1] <= time /\ time < h[2]

\* get_available_slots handing out again the list the last call of
\* suggest_alternative_times obtained for the date and sorted
Scheduler_get_available_slots_kept_list(appts, hours, date) ==
    IF "slots" \in DOMAIN ret /\ ret.date = date THEN ret.slots
    ELSE IF date < 0 THEN <<>>
    ELSE IF ~is_business_day(hours, date) THEN <<>>
    ELSE LET h == get_business_hours(hours, date)
         IN  AppointmentManager_get_available_slots(appts, date, h[1], h[2], SLOT_DURATION)

Scheduler_get_available_slots(appts, hours, date) ==
    IF date < 0 THEN <<>>
    ELSE IF ~is_business_day(hours, date) THEN <<>>
    ELSE LET h == get_business_hours(hours, date)
         IN  AppointmentManager_get_available_slots(appts, date, h[1], h[2], SLOT_DURATION)

\* get_available_dates starting today
get_available_dates_from_today(appts, hours, days_ahead) ==
    SelectSeq([i \in 1..days_ahead |-> i - 1],
              LAMBDA d : is_business_day(hours, d)
                         /\ Scheduler_get_available_slots(appts, hours, d) # <<>>)

\* get_available_dates(days_ahead): now + (i + 1) days for i in range(days_ahead)
get_available_dates(appts, hours, days_ahead) ==
    SelectSeq([i \in 1..days_ahead |-> i],
              LAMBDA d : is_business_day(hours, d)
                         /\ Scheduler_get_available_slots(appts, hours, d) # <<>>)

\* int(time.split(":")[0]) * 60 + int(time.split(":")[1]) succeeds: the text has
\* two numbers around a colon ("25:00" has, and gives 1500)
split_ok(time) == time >= 0

\* slot_distance
slot_distance(slot, requested_minutes) ==
    IF slot >= requested_minutes THEN slot - requested_minutes
    ELSE requested_minutes - slot

\* sort_insert putting x before the elements of equal key
sort_insert_before_equal(sorted, x, requested_minutes) ==
    LET k == Cardinality({i \in 1..Len(sorted) :
                 slot_distance(sorted[i], requested_minutes)
                   < slot_distance(x, requested_minutes)})
    IN  SubSeq(sorted, 1, k) \o <<x>> \o SubSeq(sorted, k + 1, Len(sorted))

\* where list.sort(key) puts x among the already sorted ones: after every
\* element whose key is not larger (the sort is stable)
sort_insert(sorted, x, requested_minutes) ==
    LET k == Cardinality({i \in 1..Len(sorted) :
                 slot_distance(sorted[i], requested_minutes)
                   <= slot_distance(x, requested_minutes)})
    IN  SubSeq(sorted, 1, k) \o <<x>> \o SubSeq(sorted, k + 1, Len(sorted))

\* available_slots.sort(key=slot_distance)
RECURSIVE sort_by_distance(_, _)
sort_by_distance(slots, requested_minutes) ==
    IF slots = <<>> THEN <<>>
    ELSE sort_insert(sort_by_distance(SubSeq(slots, 1, Len(slots) - 1), requested_minutes),
                     slots[Len(slots)], requested_minutes)

\* available_slots[:count] for count >= 0
take(slots, count) == SubSeq(slots, 1, IF count < Len(slots) THEN count ELSE Len(slots))

\* suggest_alternative_times with the sort left out
suggest_alternative_times_unsorted(appts, hours, date, time, count) ==
    LET available_slots == Scheduler_get_available_slots(appts, hours, date)
    IN  IF \E i \in 1..Len(available_slots) : available_slots[i] = time
        THEN <<time>>
        ELSE take(available_slots, count)

\* suggest_alternative_times(date, time, count)
suggest_alternative_times(appts, hours, date, time, count) ==
    LET available_slots == Scheduler_get_available_slots(appts, hours, date)
    IN  IF \E i \in 1..Len(available_slots) : available_slots[i] = time
        THEN <<time>>
        ELSE IF split_ok(time)
        THEN take(sort_by_distance(available_slots, time), count)
        ELSE take(available_slots, count)

\* validate_appointment_request: the reason of the first check that fails,
\* "Accepted" for (True, ""), or the exception that leaves the call
validate_appointment_request(appts, hours, resolves, now, date, time, service) ==
    IF service \notin ServiceKeys THEN "UnknownService"
    ELSE IF ~strptime_ok(date, time) THEN "MalformedDateTime"
    ELSE IF ~is_business_day(hours, date) THEN "ClosedDay"
    ELSE IF ~is_valid_booking_time(now, to_datetime(date, time)) THEN "OutsideBookingWindow"
    ELSE IF ~is_within_business_hours(hours, date, time) THEN "OutsideBusinessHours"
    ELSE LET avail == check_availability(appts, resolves, date, time, SERVICES[service].duration)
         IN  IF avail = "AttributeError" THEN "AttributeError"
             ELSE IF avail = "False" THEN "SlotUnavailable"
             ELSE "Accepted"

-----------------------------------------------------------------------------
(* Deposit policy.  config/settings.py as shipped defines none of the       *)
(* DEPOSIT_* names that scheduler.py and booking_agent.py import; they are  *)
(* taken from the BookingPolicy of the specification.  Amounts are in cents.*)

DEPOSIT_ENABLED == TRUE
DEPOSIT_TYPE == "percentage"
DEPOSIT_AMOUNT == 2000
DEPOSIT_PERCENTAGE == 25
DEPOSIT_REQUIRED_FOR_SERVICES == {"lifestyle_management", "event_planning", "senior_care_assistance"}

\* the settings calculate_deposit imports when it is called
DEPOSIT_SETTINGS ==
    [enabled |-> DEPOSIT_ENABLED, type |-> DEPOSIT_TYPE, amount |-> DEPOSIT_AMOUNT,
     percentage |-> DEPOSIT_PERCENTAGE, required |-> DEPOSIT_REQUIRED_FOR_SERVICES]

\* round(x, 2) of an amount that is exact in binary: x is given in hundredths
\* of a cent, the result is in cents, and a tie goes to the even cent
round_2(x) ==
    LET q == x \div 100
        r == x % 100
    IN  IF r < 50 THEN q
        ELSE IF r > 50 THEN q + 1
        ELSE IF q % 2 = 0 THEN q ELSE q + 1

\* calculate_deposit that skips the test of the service
calculate_deposit_under_for_every_service(settings, service, price) ==
    IF ~settings.enabled THEN 0
    ELSE IF settings.type = "fixed" THEN settings.amount
    ELSE round_2(price * settings.percentage)

\* the body of Scheduler.calculate_deposit under given settings: price and
\* result in cents, the percentage in hundredths
calculate_deposit_under(settings, service, price) ==
    IF ~settings.enabled THEN 0
    ELSE IF service \notin settings.required THEN 0
    ELSE IF settings.type = "fixed" THEN settings.amount
    ELSE round_2(price * settings.percentage)

\* Scheduler.calculate_deposit(service, price): price in dollars, result in cents
calculate_deposit(service, price) ==
    calculate_deposit_under(DEPOSIT_SETTINGS, service, price * 100)

-----------------------------------------------------------------------------
(* State *)

NoRet == [op |-> "none"]

Appointment(id, phone, service, date, time, duration, deposit, payment_status, status) ==
    [id |-> id, client_phone |-> phone, service |-> service, date |-> date,
     time |-> time, duration |-> duration, deposit_amount |-> deposit,
     payment_status |-> payment_status, status |-> status,
     payment_intent_id |-> "None"]

\* _get_conversation_state: the state of a phone number not seen before
NewConversation ==
    [stage |-> "greeting", service |-> "None", date |-> <<>>, time |-> <<>>,
     appointment_id |-> <<>>]

\* AppointmentManager.__init__ with no appointments.json yet
InitStore ==
    /\ appointments = <<>>
    /\ nextId = 1
    /\ business_hours \in HoursConfigs
    /\ ret = NoRet
    /\ conversations = [p \in Clients |-> NewConversation]
    /\ appointments_file = [readable |-> TRUE, data |-> <<>>]

\* the program as written: line 165 of appointment.py raises
Init == InitStore /\ timedelta_resolves = FALSE

-----------------------------------------------------------------------------
(* Calls on the store and the engine, one action per method *)

\* _save_appointments after the list has changed.  The file is rewritten
\* ("written"); or open() fails and the file stays as it was ("not_opened");
\* or the write fails after open(..., 'w') has truncated the file, which no
\* longer holds JSON ("cut_short").  The exception is caught and printed.
save_appointments(outcome) ==
    appointments_file' =
        CASE outcome = "written"    -> [readable |-> TRUE, data |-> appointments']
          [] outcome = "not_opened" -> appointments_file
          [] outcome = "cut_short"  -> [readable |-> FALSE, data |-> <<>>]

\* AppointmentManager.create_appointment(**kwargs)
create_appointment(phone, service, date, time, duration, deposit, payment_status, status) ==
    /\ appointments' = Append(appointments,
           Appointment(nextId, phone, service, date, time, duration, deposit, payment_status, status))
    /\ nextId' = nextId + 1

CreateAppointment ==
    /\ Len(appointments) < MaxAppts
    /\ \E service \in StoreServices, slot \in StoreSlots :
          /\ create_appointment("p1", service, slot[1], slot[2], SERVICES[service].duration,
                                0, "fully_paid", "confirmed")
          /\ ret' = [op |-> "create_appointment", id |-> nextId]
    /\ save_appointments("written")
    /\ UNCHANGED <<business_hours, timedelta_resolves, conversations>>

\* AppointmentManager.update_appointment(appointment)
update_appointment(appt) ==
    appointments' =
        IF \E i \in 1..Len(appointments) : appointments[i].id = appt.id
        THEN LET i == CHOOSE j \in 1..Len(appointments) :
                          appointments[j].id = appt.id
                          /\ \A k \in 1..(j-1) : appointments[k].id # appt.id
             IN  [appointments EXCEPT ![i] = appt]
        ELSE appointments

\* a caller changes the date and time of a stored appointment and updates it
UpdateAppointment ==
    /\ \E i \in 1..Len(appointments), slot \in StoreSlots :
          /\ update_appointment([appointments[i] EXCEPT !.date = slot[1], !.time = slot[2]])
          /\ ret' = [op |-> "update_appointment", id |-> appointments[i].id,
                     old_date |-> appointments[i].date, old_time |-> appointments[i].time]
    /\ save_appointments("written")
    /\ UNCHANGED <<nextId, business_hours, timedelta_resolves, conversations>>

\* AppointmentManager.cancel_appointment(appointment_id)
cancel_appointment(id) ==
    appointments' = [i \in 1..Len(appointments) |->
                        IF appointments[i].id = id
                           /\ \A k \in 1..(i-1) : appointments[k].id # id
                        THEN [appointments[i] EXCEPT !.status = "cancelled"]
                        ELSE appointments[i]]

CancelAppointment ==
    /\ \E id \in 1..MaxAppts :
          /\ cancel_appointment(id)
          /\ ret' = [op |-> "cancel_appointment", id |-> id,
                     val |-> (get_appointment_by_id(appointments, id) # <<>>)]
          /\ IF get_appointment_by_id(appointments, id) # <<>>
             THEN save_appointments("written")
             ELSE UNCHANGED appointments_file
    /\ UNCHANGED <<nextId, business_hours, timedelta_resolves, conversations>>

\* AppointmentManager.check_availability(date, time, duration)
CallCheckAvailability ==
    /\ \E slot \in StoreSlots, duration \in ReqDurations :
          ret' = [op |-> "check_availability", date |-> slot[1], time |-> slot[2],
                  duration |-> duration,
                  val |-> check_availability(appointments, timedelta_resolves,
                                             slot[1], slot[2], duration)]
    /\ UNCHANGED <<appointments, nextId, business_hours, timedelta_resolves, conversations,
                 appointments_file>>

\* get_available_slots that also drops the cancelled appointments of the
\* date from the stored list
CallGetAvailableSlots_dropping_cancelled ==
    /\ \E date \in ReqDates :
          /\ ret' = [op |-> "get_available_slots", date |-> date,
                     val |-> Scheduler_get_available_slots(appointments, business_hours, date)]
          /\ appointments' = SelectSeq(appointments,
                                LAMBDA a : ~(a.date = date /\ a.status = "cancelled"))
    /\ UNCHANGED <<nextId, business_hours, timedelta_resolves, conversations,
                 appointments_file>>

\* Scheduler.get_available_slots(date_str)
CallGetAvailableSlots ==
    /\ \E date \in ReqDates :
          ret' = [op |-> "get_available_slots", date |-> date,
                  val |-> Scheduler_get_available_slots(appointments, business_hours, date)]
    /\ UNCHANGED <<appointments, nextId, business_hours, timedelta_resolves, conversations,
                 appointments_file>>

\* Scheduler.validate_appointment_request(date, time, service)
CallValidate ==
    /\ \E slot \in ReqSlots, service \in ReqServices, now \in Nows :
          ret' = [op |-> "validate_appointment_request", date |-> slot[1], time |-> slot[2],
                  service |-> service, now |-> now,
                  val |-> validate_appointment_request(appointments, business_hours,
                              timedelta_resolves, now, slot[1], slot[2], service)]
    /\ UNCHANGED <<appointments, nextId, business_hours, timedelta_resolves, conversations,
                 appointments_file>>

\* Scheduler.get_available_dates(days_ahead)
CallGetAvailableDates ==
    /\ \E days_ahead \in Horizons :
          ret' = [op |-> "get_available_dates", days_ahead |-> days_ahead,
                  val |-> get_available_dates(appointments, business_hours, days_ahead)]
    /\ UNCHANGED <<appointments, nextId, business_hours, timedelta_resolves, conversations,
                 appointments_file>>

\* Scheduler.suggest_alternative_times(date, time, count)
CallSuggestAlternativeTimes ==
    /\ \E date \in SuggestDates, time \in SuggestTimes, count \in SuggestCounts :
          ret' = [op |-> "suggest_alternative_times", date |-> date, time |-> time,
                  count |-> count,
                  val |-> suggest_alternative_times(appointments, business_hours,
                                                    date, time, count)]
    /\ UNCHANGED <<appointments, nextId, business_hours, timedelta_resolves, conversations,
                 appointments_file>>

\* the dates handed over as datetime objects
EngineDates == {d \in ReqDates : d >= 0}

\* Scheduler.is_business_day(date)
CallIsBusinessDay ==
    /\ \E date \in EngineDates :
          ret' = [op |-> "is_business_day", date |-> date,
                  val |-> is_business_day(business_hours, date)]
    /\ UNCHANGED <<appointments, nextId, business_hours, timedelta_resolves, conversations,
                 appointments_file>>

\* Scheduler.get_business_hours(date)
CallGetBusinessHours ==
    /\ \E date \in EngineDates :
          ret' = [op |-> "get_business_hours", date |-> date,
                  val |-> get_business_hours(business_hours, date)]
    /\ UNCHANGED <<appointments, nextId, business_hours, timedelta_resolves, conversations,
                 appointments_file>>

\* Scheduler.calculate_deposit(service, price) with the price of the service
CallCalculateDeposit ==
    /\ \E service \in ServiceKeys :
          ret' = [op |-> "calculate_deposit", service |-> service,
                  val |-> calculate_deposit(service, SERVICES[service].price)]
    /\ UNCHANGED <<appointments, nextId, business_hours, timedelta_resolves, conversations,
                 appointments_file>>

Next ==
    \/ CreateAppointment
    \/ UpdateAppointment
    \/ CancelAppointment
    \/ CallCheckAvailability
    \/ CallGetAvailableSlots
    \/ CallValidate
    \/ CallGetAvailableDates
    \/ CallSuggestAlternativeTimes
    \/ CallIsBusinessDay
    \/ CallGetBusinessHours
    \/ CallCalculateDeposit

Spec == Init /\ [][Next]_vars

-----------------------------------------------------------------------------
(* The store on storage that can fail: every save and every load may meet   *)
(* an I/O error, which _save_appointments and _load_appointments catch.     *)

SaveOutcomes == {"written", "not_opened", "cut_short"}
LoadOutcomes == {"read", "unreadable"}

\* create_appointment when the save may fail: the appointment is returned
CreateAppointmentOnFaultyStorage ==
    /\ Len(appointments) < MaxAppts
    /\ nextId <= MaxAppts
    /\ \E service \in StoreServices, slot \in StoreSlots, outcome \in SaveOutcomes :
          /\ create_appointment("p1", service, slot[1], slot[2], SERVICES[service].duration,
                                0, "fully_paid", "confirmed")
          /\ save_appointments(outcome)
          /\ ret' = [op |-> "create_appointment", id |-> nextId, save |-> outcome,
                     reported |-> "returned"]
    /\ UNCHANGED <<business_hours, timedelta_resolves, conversations>>

\* cancel_appointment when the save may fail: True is returned for a stored id
CancelAppointmentOnFaultyStorage ==
    /\ \E id \in 1..MaxAppts, outcome \in SaveOutcomes :
          /\ get_appointment_by_id(appointments, id) # <<>>
          /\ cancel_appointment(id)
          /\ save_appointments(outcome)
          /\ ret' = [op |-> "cancel_appointment", id |-> id, val |-> TRUE, save |-> outcome,
                     reported |-> "returned"]
    /\ UNCHANGED <<nextId, business_hours, timedelta_resolves, conversations>>

\* AppointmentManager.__init__ -> _load_appointments in a new process: the
\* list is what the file holds, or [] when the file cannot be read or parsed
LoadAppointments ==
    /\ \E outcome \in LoadOutcomes :
          /\ appointments' = IF appointments_file.readable /\ outcome = "read"
                              THEN appointments_file.data ELSE <<>>
          /\ ret' = [op |-> "load_appointments",
                     load |-> IF appointments_file.readable THEN outcome ELSE "unreadable",
                     reported |-> "returned"]
    /\ conversations' = [p \in Clients |-> NewConversation]
    /\ UNCHANGED <<nextId, business_hours, timedelta_resolves, appointments_file>>

NextStore ==
    \/ CreateAppointmentOnFaultyStorage
    \/ CancelAppointmentOnFaultyStorage
    \/ LoadAppointments
    \/ CallGetAvailableSlots
    \/ CallCheckAvailability
    \/ CallValidate

SpecStore == Init /\ [][NextStore]_vars

-----------------------------------------------------------------------------
(* agent/booking_agent.py: BookingAgent._handle_message and what it calls.  *)
(* A message is what the NLU hands over: the intent, the extracted service, *)
(* date and time (<<>> for None), and whether the text holds "yes" or "no". *)

AgentServices == {"general_assistance", "lifestyle_management"}
AgentDates == {2}
AgentTimes == {600, 660}
Intents == {"greeting", "book", "reschedule", "cancel", "pricing"}
PaymentIntents == {"pi_1", "None"}

Extracted(services, dates, times) ==
    [service : services, date : dates, time : times]

OptDates == {<<d>> : d \in AgentDates} \cup {<<>>}
OptTimes == {<<t>> : t \in AgentTimes} \cup {<<>>}

Message(intent, x, says) ==
    [intent |-> intent, service |-> x.service, date |-> x.date, time |-> x.time, says |-> says]

\* the messages the first client sends: a greeting; booking talk carrying any
\* of service, date and time; a "yes" or "no", alone or with a time; a
\* reschedule naming the new date and time or neither, alone or with a
\* service; a cancellation with or without "yes"
Messages ==
    {Message("greeting", x, "neither") : x \in Extracted({"None"}, {<<>>}, {<<>>})}
    \cup {Message(i, x, "neither") :
        i \in {"book", "pricing"},
        x \in Extracted(AgentServices \cup {"None"}, OptDates, OptTimes)}
    \cup {Message("pricing", x, y) :
        x \in Extracted({"None"}, {<<>>}, OptTimes), y \in {"yes", "no"}}
    \cup {Message("reschedule", x, "neither") :
        x \in {y \in Extracted(AgentServices \cup {"None"}, OptDates, OptTimes) :
                  (y.date = <<>>) = (y.time = <<>>)}}
    \cup {Message("cancel", x, y) :
        x \in Extracted({"None"}, {<<>>}, {<<>>}), y \in {"yes", "neither"}}

\* the second client only books: one message naming a service, date and
\* time, repeated until the deposit is asked for, and a "yes"
MessagesOf(p) ==
    IF p = "p1" THEN Messages
    ELSE {Message("book", [service |-> "lifestyle_management", date |-> <<2>>,
                           time |-> <<600>>], "neither"),
          Message("pricing", [service |-> "None", date |-> <<>>, time |-> <<>>], "yes")}

Outcome(conv, appts, nid, out) == [conv |-> conv, appts |-> appts, nid |-> nid, out |-> out]

\* lines 116-121: the extracted data overwrite the state before the stage is read
apply_extracted(st, m) ==
    [st EXCEPT !.service = IF m.service # "None" THEN m.service ELSE @,
               !.date    = IF m.date # <<>> THEN m.date ELSE @,
               !.time    = IF m.time # <<>> THEN m.time ELSE @]

\* _create_appointment_record: get_service_info of an unknown service is {},
\* and service_info["price"] then raises KeyError
create_appointment_record(st, phone, appts, nid) ==
    IF st.service \notin ServiceKeys
    THEN Outcome(st, appts, nid, "KeyError")
    ELSE LET info    == SERVICES[st.service]
             deposit == calculate_deposit(st.service, info.price)
         IN  Outcome([st EXCEPT !.appointment_id = <<nid>>],
                     Append(appts, Appointment(nid, phone, st.service, st.date[1], st.time[1],
                                info.duration, deposit,
                                IF deposit > 0 THEN "pending" ELSE "fully_paid",
                                IF deposit = 0 THEN "confirmed" ELSE "pending")),
                     nid + 1, "created")

\* the replacement update_appointment makes in a list
replace_by_id(appts, appt) ==
    [i \in 1..Len(appts) |->
        IF appts[i].id = appt.id /\ \A k \in 1..(i-1) : appts[k].id # appt.id
        THEN appt ELSE appts[i]]

\* the appointment _handle_reschedule and _handle_cancellation pick when the
\* state holds no appointment_id: the client's first pending or confirmed one
upcoming(appts, phone) ==
    SelectSeq(appts, LAMBDA a : a.client_phone = phone
                                 /\ a.status \in {"pending", "confirmed"})

\* _handle_reschedule(state, message)
handle_reschedule(st0, phone, m, appts, nid, hours, resolves, now) ==
    IF st0.appointment_id = <<>> /\ upcoming(appts, phone) = <<>>
    THEN Outcome(st0, appts, nid, "nothing_to_reschedule")
    ELSE LET st == IF st0.appointment_id = <<>>
                   THEN [st0 EXCEPT !.appointment_id = <<upcoming(appts, phone)[1].id>>]
                   ELSE st0
         IN  IF m.date = <<>> \/ m.time = <<>>
             THEN Outcome(st, appts, nid, "ask_date_time")
             ELSE LET v == validate_appointment_request(appts, hours, resolves, now,
                                                        m.date[1], m.time[1], st.service)
                      found == get_appointment_by_id(appts, st.appointment_id[1])
                  IN  IF v # "Accepted" THEN Outcome(st, appts, nid, v)
                      ELSE IF found = <<>> THEN Outcome(st, appts, nid, "unable")
                      ELSE Outcome(st,
                                   replace_by_id(appts, [found[1] EXCEPT !.date = m.date[1],
                                                                         !.time = m.time[1]]),
                                   nid, "rescheduled")

\* _handle_cancellation that resets the stage before the client has confirmed
handle_cancellation_reset_at_once(st0, phone, m, appts, nid) ==
    IF st0.appointment_id = <<>> /\ upcoming(appts, phone) = <<>>
    THEN Outcome(st0, appts, nid, "nothing_to_cancel")
    ELSE LET st == IF st0.appointment_id = <<>>
                   THEN [st0 EXCEPT !.appointment_id = <<upcoming(appts, phone)[1].id>>]
                   ELSE st0
             found == get_appointment_by_id(appts, st.appointment_id[1])
         IN  IF found = <<>> THEN Outcome(st, appts, nid, "not_found")
             ELSE IF m.says = "yes"
             THEN Outcome([st EXCEPT !.stage = "greeting"],
                          replace_by_id(appts, [found[1] EXCEPT !.status = "cancelled"]),
                          nid, "cancelled")
             ELSE Outcome([st EXCEPT !.stage = "greeting"], appts, nid, "policy")

\* _handle_cancellation(state, message)
handle_cancellation(st0, phone, m, appts, nid) ==
    IF st0.appointment_id = <<>> /\ upcoming(appts, phone) = <<>>
    THEN Outcome(st0, appts, nid, "nothing_to_cancel")
    ELSE LET st == IF st0.appointment_id = <<>>
                   THEN [st0 EXCEPT !.appointment_id = <<upcoming(appts, phone)[1].id>>]
                   ELSE st0
             found == get_appointment_by_id(appts, st.appointment_id[1])
         IN  IF found = <<>> THEN Outcome(st, appts, nid, "not_found")
             ELSE IF m.says = "yes"
             THEN Outcome([st EXCEPT !.stage = "greeting"],
                          replace_by_id(appts, [found[1] EXCEPT !.status = "cancelled"]),
                          nid, "cancelled")
             ELSE Outcome(st, appts, nid, "policy")

\* _handle_message(state, intent, extracted_data, original_message)
handle_message(st0, phone, m, appts, nid, hours, resolves, now) ==
    LET st == apply_extracted(st0, m)
    IN  CASE st.stage = "greeting" ->
               IF m.intent = "greeting" THEN Outcome(st, appts, nid, "reply")
               ELSE IF m.intent = "book"
               THEN Outcome([st EXCEPT !.stage = IF st.service # "None" THEN "collecting_date"
                                                 ELSE "collecting_service"],
                            appts, nid, "reply")
               ELSE Outcome([st EXCEPT !.stage = "collecting_service"], appts, nid, "reply")
          [] st.stage = "collecting_service" ->
               IF m.intent = "book"
               THEN Outcome([st EXCEPT !.stage = IF st.service # "None" THEN "collecting_date"
                                                 ELSE @],
                            appts, nid, "reply")
               ELSE Outcome([st EXCEPT !.stage = IF m.service # "None" THEN "collecting_date"
                                                 ELSE @],
                            appts, nid, "reply")
          [] st.stage = "collecting_date" ->
               Outcome([st EXCEPT !.stage = IF st.date # <<>> THEN "collecting_time" ELSE @],
                       appts, nid, "reply")
          [] st.stage = "collecting_time" ->
               IF st.time = <<>> THEN Outcome(st, appts, nid, "reply")
               ELSE LET v == validate_appointment_request(appts, hours, resolves, now,
                                                          st.date[1], st.time[1], st.service)
                    IN  IF v # "Accepted" THEN Outcome(st, appts, nid, v)
                        ELSE IF calculate_deposit(st.service, SERVICES[st.service].price) > 0
                                /\ DEPOSIT_ENABLED
                        THEN Outcome([st EXCEPT !.stage = "awaiting_deposit"], appts, nid, "ask_deposit")
                        ELSE LET c == create_appointment_record(st, phone, appts, nid)
                             IN  Outcome([c.conv EXCEPT !.stage = "confirmed"], c.appts, c.nid, "booked")
          [] st.stage = "awaiting_deposit" ->
               IF m.says = "yes" THEN create_appointment_record(st, phone, appts, nid)
               ELSE IF m.says = "no"
               THEN Outcome([st EXCEPT !.stage = "collecting_time"], appts, nid, "reply")
               ELSE Outcome(st, appts, nid, "reply")
          [] st.stage = "confirmed" ->
               IF m.intent = "reschedule"
               THEN handle_reschedule(st, phone, m, appts, nid, hours, resolves, now)
               ELSE IF m.intent = "cancel"
               THEN handle_cancellation(st, phone, m, appts, nid)
               ELSE Outcome(st, appts, nid, "reply")

-----------------------------------------------------------------------------
(* The orchestrator: one action per stage of _handle_message, the Stripe    *)
(* webhook and the cancel endpoint of api/flask_app.py.                      *)

\* The stages after collecting_time are entered only when
\* validate_appointment_request accepts, which takes line 165 of
\* appointment.py to resolve `datetime.timedelta`: this start state reads
\* that line as `dt.timedelta`, as get_available_slots (line 188) has it.
InitAgent == InitStore /\ business_hours = BUSINESS_HOURS /\ timedelta_resolves = TRUE

\* the stages _handle_message has a branch for
HandledStages ==
    {"greeting", "collecting_service", "collecting_date", "collecting_time",
     "awaiting_deposit", "confirmed"}

\* process_message for client p once the NLU has produced m
ProcessMessage(p, m, now) ==
    /\ LET r == handle_message(conversations[p], p, m, appointments, nextId,
                               business_hours, timedelta_resolves, now)
       IN  /\ Len(r.appts) <= MaxAppts
           /\ conversations' = [conversations EXCEPT ![p] = r.conv]
           /\ appointments' = r.appts
           /\ nextId' = r.nid
           /\ ret' = [op |-> "handle_message", val |-> r.out]
           /\ IF r.out \in {"booked", "created", "rescheduled", "cancelled"}
              THEN save_appointments("written")
              ELSE UNCHANGED appointments_file
    /\ UNCHANGED <<business_hours, timedelta_resolves>>

Greeting ==
    \E p \in Clients : \E m \in MessagesOf(p), now \in Nows :
        conversations[p].stage = "greeting" /\ ProcessMessage(p, m, now)

CollectingService ==
    \E p \in Clients : \E m \in MessagesOf(p), now \in Nows :
        conversations[p].stage = "collecting_service" /\ ProcessMessage(p, m, now)

CollectingDate ==
    \E p \in Clients : \E m \in MessagesOf(p), now \in Nows :
        conversations[p].stage = "collecting_date" /\ ProcessMessage(p, m, now)

CollectingTime ==
    \E p \in Clients : \E m \in MessagesOf(p), now \in Nows :
        conversations[p].stage = "collecting_time" /\ ProcessMessage(p, m, now)

AwaitingDeposit ==
    \E p \in Clients : \E m \in MessagesOf(p), now \in Nows :
        conversations[p].stage = "awaiting_deposit" /\ ProcessMessage(p, m, now)

Confirmed ==
    \E p \in Clients : \E m \in MessagesOf(p), now \in Nows :
        conversations[p].stage = "confirmed" /\ ProcessMessage(p, m, now)

\* mark_deposit_paid that leaves payment_status as it was
mark_deposit_paid_status_only(appt, pi) ==
    [appt EXCEPT !.payment_intent_id = pi, !.status = "confirmed"]

\* Appointment.mark_deposit_paid(payment_intent_id)
mark_deposit_paid(appt, pi) ==
    [appt EXCEPT !.payment_status = "deposit_paid", !.payment_intent_id = pi,
                 !.status = "confirmed"]

\* stripe_webhook -> BookingAgent.handle_payment_webhook(payment_intent_id);
\* the endpoint then sets the client's stage to "confirmed"
StripeWebhook ==
    \E pi \in PaymentIntents :
        /\ IF \E i \in 1..Len(appointments) : appointments[i].payment_intent_id = pi
           THEN LET i == CHOOSE j \in 1..Len(appointments) :
                             /\ appointments[j].payment_intent_id = pi
                             /\ \A k \in 1..(j-1) : appointments[k].payment_intent_id # pi
                    a == mark_deposit_paid(appointments[i], pi)
                IN  /\ appointments' = replace_by_id(appointments, a)
                    /\ conversations' = [conversations EXCEPT ![a.client_phone].stage = "confirmed"]
                    /\ ret' = [op |-> "stripe_webhook", val |-> "paid"]
                    /\ save_appointments("written")
           ELSE /\ UNCHANGED <<appointments, conversations, appointments_file>>
                /\ ret' = [op |-> "stripe_webhook", val |-> "unknown"]
        /\ UNCHANGED <<nextId, business_hours, timedelta_resolves>>

\* POST /appointments/<id>/cancel -> AppointmentManager.cancel_appointment
CancelEndpoint ==
    /\ \E id \in 1..MaxAppts :
          /\ cancel_appointment(id)
          /\ ret' = [op |-> "cancel_appointment", id |-> id,
                     val |-> (get_appointment_by_id(appointments, id) # <<>>)]
          /\ IF get_appointment_by_id(appointments, id) # <<>>
             THEN save_appointments("written")
             ELSE UNCHANGED appointments_file
    /\ UNCHANGED <<nextId, business_hours, timedelta_resolves, conversations>>

NextAgent ==
    \/ Greeting
    \/ CollectingService
    \/ CollectingDate
    \/ CollectingTime
    \/ AwaitingDeposit
    \/ Confirmed
    \/ StripeWebhook
    \/ CancelEndpoint

SpecAgent == InitAgent /\ [][NextAgent]_vars

-----------------------------------------------------------------------------
(* get_available_slots called again.  ret keeps, as first, the date and the *)
(* result of the call of get_available_slots that came first since the     *)
(* store was last written.                                                  *)

\* the list suggest_alternative_times holds in available_slots when it returns
available_slots_at_return(appts, hours, date, time) ==
    LET available_slots == Scheduler_get_available_slots(appts, hours, date)
    IN  IF \E i \in 1..Len(available_slots) : available_slots[i] = time
        THEN available_slots
        ELSE IF split_ok(time) THEN sort_by_distance(available_slots, time)
        ELSE available_slots

HasFirst == ret.op = "get_available_slots" \/ "first" \in DOMAIN ret
first_call == IF "first" \in DOMAIN ret THEN ret.first ELSE [date |-> ret.date, val |-> ret.val]

\* suggest_alternative_times for the date of the first call
SuggestBetweenCalls ==
    /\ HasFirst
    /\ \E time \in SuggestTimes, count \in SuggestCounts :
          ret' = [op |-> "suggest_alternative_times", date |-> first_call.date,
                  time |-> time, count |-> count,
                  val |-> suggest_alternative_times(appointments, business_hours,
                                                    first_call.date, time, count),
                  slots |-> available_slots_at_return(appointments, business_hours,
                                                      first_call.date, time),
                  first |-> first_call]
    /\ UNCHANGED <<appointments, nextId, business_hours, timedelta_resolves, conversations,
                 appointments_file>>

\* validate_appointment_request between the two calls
ValidateBetweenCalls ==
    /\ HasFirst
    /\ \E slot \in ReqSlots, service \in ReqServices, now \in Nows :
          ret' = [op |-> "validate_appointment_request", date |-> slot[1], time |-> slot[2],
                  service |-> service, now |-> now,
                  val |-> validate_appointment_request(appointments, business_hours,
                              timedelta_resolves, now, slot[1], slot[2], service),
                  first |-> first_call]
    /\ UNCHANGED <<appointments, nextId, business_hours, timedelta_resolves, conversations,
                 appointments_file>>

\* get_available_slots for the date of the first call
GetAvailableSlotsAgain ==
    /\ HasFirst
    /\ ret' = [op |-> "get_available_slots", date |-> first_call.date,
               val |-> Scheduler_get_available_slots(appointments, business_hours,
                                                     first_call.date),
               first |-> first_call, after |-> ret.op]
    /\ UNCHANGED <<appointments, nextId, business_hours, timedelta_resolves, conversations,
                 appointments_file>>

NextRepeat ==
    \/ CreateAppointment
    \/ CancelAppointment
    \/ CallGetAvailableSlots
    \/ SuggestBetweenCalls
    \/ ValidateBetweenCalls
    \/ GetAvailableSlotsAgain

SpecRepeat == Init /\ [][NextRepeat]_vars

-----------------------------------------------------------------------------
(* calculate_deposit as a function of the settings, the service and the     *)
(* price.  Prices are multiples of half a dollar and percentages multiples  *)
(* of a quarter, so that the product is exact in binary floating point.     *)

DepositSettings ==
    [enabled : BOOLEAN, type : {"fixed", "percentage"}, amount : {0, 2000},
     percentage : {0, 25, 50, 75, 100},
     required : {{}, DEPOSIT_REQUIRED_FOR_SERVICES}]
DepositServices == {"general_assistance", "lifestyle_management"}
DepositPrices == {0, 50, 150, 250, 8500, 9000}

CallCalculateDepositUnder ==
    /\ \E settings \in DepositSettings, service \in DepositServices, price \in DepositPrices :
          ret' = [op |-> "calculate_deposit", settings |-> settings, service |-> service,
                  price |-> price,
                  val |-> calculate_deposit_under(settings, service, price)]
    /\ UNCHANGED <<appointments, nextId, business_hours, timedelta_resolves, conversations,
                 appointments_file>>

NextDeposit == CallCalculateDepositUnder

SpecDeposit == Init /\ [][NextDeposit]_vars

-----------------------------------------------------------------------------
(* The calls on the store and the engine from the start state in which     *)
(* line 165 of appointment.py resolves, so that check_availability answers *)
(* and validate_appointment_request can accept.                            *)

SpecEngine == InitAgent /\ [][Next]_vars

-----------------------------------------------------------------------------
(* Rescheduling: a client books a 90-minute service with a deposit, pays,  *)
(* and asks to move the appointment while another client books 60 minutes. *)

RescheduleScript ==
    {Message("book", [service |-> "lifestyle_management", date |-> <<2>>, time |-> <<750>>],
             "neither"),
     Message("pricing", [service |-> "None", date |-> <<>>, time |-> <<>>], "yes"),
     Message("book", [service |-> "general_assistance", date |-> <<2>>, time |-> <<660>>],
             "neither"),
     Message("reschedule", [service |-> "general_assistance", date |-> <<2>>, time |-> <<600>>],
             "neither"),
     Message("reschedule", [service |-> "None", date |-> <<2>>, time |-> <<660>>], "neither"),
     Message("reschedule", [service |-> "None", date |-> <<>>, time |-> <<>>], "neither")}

\* process_message for one of the messages of the script, at any stage
HandleRescheduleScript ==
    \E p \in Clients : \E m \in RescheduleScript, now \in Nows :
        conversations[p].stage \in HandledStages /\ ProcessMessage(p, m, now)

NextReschedule ==
    \/ HandleRescheduleScript
    \/ StripeWebhook

SpecReschedule == InitAgent /\ [][NextReschedule]_vars

-----------------------------------------------------------------------------
(* agent/ai_booking_agent.py: the agent api/flask_app.py starts first.  It  *)
(* holds one AppointmentManager, read when the application starts, and      *)
(* hands every structured message to a BookingAgent() built for that        *)
(* message, whose own AppointmentManager reads the file anew.  The variable *)
(* appointments is the list of the long-lived manager.                      *)

\* _load_appointments when the read succeeds
load_appointments(file) == IF file.readable THEN file.data ELSE <<>>

\* AIBookingAgent._handle_structured_flow: BookingAgent()._handle_message
HandleStructuredFlow ==
    /\ \E p \in Clients : \E m \in MessagesOf("p2"), now \in Nows :
          LET r == handle_message(conversations[p], p, m, load_appointments(appointments_file),
                                  nextId, business_hours, timedelta_resolves, now)
          IN  /\ Len(r.appts) <= MaxAppts
              /\ r.nid <= MaxAppts + 1
              /\ conversations' = [conversations EXCEPT ![p] = r.conv]
              /\ nextId' = r.nid
              /\ ret' = [op |-> "handle_message", val |-> r.out]
              /\ appointments_file' =
                     IF r.out \in {"booked", "created", "rescheduled", "cancelled"}
                     THEN [readable |-> TRUE, data |-> r.appts]
                     ELSE appointments_file
    /\ UNCHANGED <<appointments, business_hours, timedelta_resolves>>

\* the application is started again: AIBookingAgent.__init__
StartApplication ==
    /\ appointments' = load_appointments(appointments_file)
    /\ conversations' = [p \in Clients |-> NewConversation]
    /\ ret' = [op |-> "start"]
    /\ UNCHANGED <<nextId, business_hours, timedelta_resolves, appointments_file>>

NextAIAgent ==
    \/ HandleStructuredFlow
    \/ StartApplication
    \/ CancelEndpoint

SpecAIAgent == InitAgent /\ [][NextAIAgent]_vars

-----------------------------------------------------------------------------
(* The life of a stored appointment: the operations that write its status.  *)

\* Appointment.complete()
complete(appt) ==
    [appt EXCEPT !.status = "completed", !.payment_status = "fully_paid"]

\* a caller completes a stored appointment and updates it
CompleteAppointment ==
    /\ \E i \in 1..Len(appointments) :
          /\ update_appointment(complete(appointments[i]))
          /\ ret' = [op |-> "complete", id |-> appointments[i].id]
    /\ save_appointments("written")
    /\ UNCHANGED <<nextId, business_hours, timedelta_resolves, conversations>>

NextLifecycle ==
    \/ CreateAppointment
    \/ UpdateAppointment
    \/ CancelAppointment
    \/ CompleteAppointment
    \/ StripeWebhook

SpecLifecycle == Init /\ [][NextLifecycle]_vars

-----------------------------------------------------------------------------
(* Status and payment status: appointments the orchestrator creates, with  *)
(* and without a deposit, and the operations that write their status.      *)

\* a booking of a service with a deposit and of one without, and a "yes"
ScriptedMessages ==
    MessagesOf("p2")
    \cup {Message("book", [service |-> "general_assistance", date |-> <<2>>,
                           time |-> <<660>>], "neither")}

\* process_message for one of the scripted messages, at any stage
HandleScriptedMessage ==
    \E p \in Clients : \E m \in ScriptedMessages, now \in Nows :
        conversations[p].stage \in HandledStages /\ ProcessMessage(p, m, now)

NextPayments ==
    \/ HandleScriptedMessage
    \/ StripeWebhook
    \/ CancelEndpoint
    \/ CompleteAppointment

SpecPayments == InitAgent /\ [][NextPayments]_vars

-----------------------------------------------------------------------------
(* What the specification says, stated without the code *)

\* the non-cancelled appointments of a date, as a set
ActiveOn(appts, date) ==
    {a \in Range(appts) : a.date = date /\ a.status # "cancelled"}

\* t lies in [appt_start, appt_start + appt_duration) of an appointment of the date
Covered(appts, date, t) ==
    \E a \in ActiveOn(appts, date) : a.time <= t /\ t < a.time + a.duration

\* the half-open intervals [t, t+dur) and [c, d) intersect
Intersects(t, dur, c, d) == t < d /\ c < t + dur

Overlaps(appts, date, t, dur) ==
    \E a \in ActiveOn(appts, date) : Intersects(t, dur, a.time, a.time + a.duration)

\* the grid of a day: open + k * slot_duration with room for 60 minutes
GridTimes(hours, date) ==
    LET h == get_business_hours(hours, date)
    IN  {t \in h[1]..h[2] : /\ (t - h[1]) % SLOT_DURATION = 0
                            /\ t + MIN_BOOKING_MINUTES <= h[2]}

RECURSIVE Ascending(_)
Ascending(S) ==
    IF S = {} THEN <<>>
    ELSE LET m == CHOOSE x \in S : \A y \in S : x <= y
         IN  <<m>> \o Ascending(S \ {m})

IsGetSlots == ret.op = "get_available_slots"
IsValidate == ret.op = "validate_appointment_request"
IsCheck    == ret.op = "check_availability"

-----------------------------------------------------------------------------
C3_NoCoveredSlot ==
    IsGetSlots =>
        \A i \in 1..Len(ret.val) : ~Covered(appointments, ret.date, ret.val[i])

(* C4: on a business day every time t that get_available_slots returns has *)
(* open <= t and t + 60 <= close for the hours of the date's weekday.       *)
C4_SlotsWithinHours ==
    (IsGetSlots /\ ret.date >= 0 /\ is_business_day(business_hours, ret.date)) =>
        LET h == get_business_hours(business_hours, ret.date)
        IN  \A i \in 1..Len(ret.val) : h[1] <= ret.val[i] /\ ret.val[i] + 60 <= h[2]

\* a call on a business day with an appointment stored on it returned slots
\* from the opening time up to the last one that leaves 60 minutes
C4_Witness ==
    /\ IsGetSlots /\ ret.date >= 0 /\ is_business_day(business_hours, ret.date)
    /\ ActiveOn(appointments, ret.date) # {}
    /\ Len(ret.val) > 1
    /\ ret.val[Len(ret.val)] + 60 = get_business_hours(business_hours, ret.date)[2]
    /\ \E i \in 1..Len(ret.val) : ret.val[i] = get_business_hours(business_hours, ret.date)[1]

(* C5: on a business day get_available_slots returns, in ascending order    *)
(* and without duplicates, exactly the grid times open + k * slot_duration  *)
(* with t + 60 <= close that no non-cancelled appointment of the date       *)
(* covers.                                                                   *)
C5_ExactlyUncoveredGrid ==
    (IsGetSlots /\ ret.date >= 0 /\ is_business_day(business_hours, ret.date)) =>
        ret.val = Ascending({t \in GridTimes(business_hours, ret.date) :
                                 ~Covered(appointments, ret.date, t)})

(* C6: right after create_appointment(d, t, duration) returns, t is not in  *)
(* get_available_slots(d) and the overlap check reports a conflict for      *)
(* every interval that intersects [t, t + duration) on d; right after an    *)
(* update_appointment that moved an appointment, its old slot is no longer  *)
(* blocked by it and its new one is.                                        *)
C6_ReadsSeeWrites ==
    /\ ret.op = "create_appointment" =>
          LET a == get_appointment_by_id(appointments, ret.id)[1]
              slots == Scheduler_get_available_slots(appointments, business_hours, a.date)
          IN  /\ \A i \in 1..Len(slots) : slots[i] # a.time
              /\ \A s \in StoreSlots, dur \in ReqDurations :
                    (s[1] = a.date /\ Intersects(s[2], dur, a.time, a.time + a.duration))
                       => check_availability(appointments, timedelta_resolves,
                                             s[1], s[2], dur) = "False"
    /\ ret.op = "update_appointment" =>
          LET a == get_appointment_by_id(appointments, ret.id)[1]
              others == SelectSeq(appointments, LAMBDA b : b.id # ret.id)
          IN  a.status # "cancelled" =>
                /\ check_availability(appointments, timedelta_resolves,
                                      a.date, a.time, a.duration) = "False"
                /\ (~Intersects(ret.old_time, a.duration, a.time, a.time + a.duration)
                       \/ ret.old_date # a.date)
                     => check_availability(appointments, timedelta_resolves,
                                           ret.old_date, ret.old_time, a.duration)
                        = check_availability(others, timedelta_resolves,
                                             ret.old_date, ret.old_time, a.duration)

(* C7: after cancel_appointment every availability computation gives what  *)
(* it would give if the appointment were not stored, and a new booking of   *)
(* its interval is accepted when nothing else stands in its way.            *)
C7_CancelledIgnored ==
    (ret.op = "cancel_appointment" /\ ret.val) =>
        LET a == get_appointment_by_id(appointments, ret.id)[1]
            without == SelectSeq(appointments, LAMBDA b : b.id # ret.id)
        IN  /\ \A d \in ReqDates :
                  Scheduler_get_available_slots(appointments, business_hours, d)
                    = Scheduler_get_available_slots(without, business_hours, d)
            /\ get_appointments_by_date(appointments, a.date)
                 = get_appointments_by_date(without, a.date)
            /\ get_appointments_by_date_range(appointments, 0, a.date)
                 = get_appointments_by_date_range(without, 0, a.date)
            /\ \A s \in StoreSlots, dur \in ReqDurations :
                  check_availability(appointments, timedelta_resolves, s[1], s[2], dur)
                    = check_availability(without, timedelta_resolves, s[1], s[2], dur)
            /\ \A now \in Nows :
                  ( /\ is_business_day(business_hours, a.date)
                    /\ is_valid_booking_time(now, to_datetime(a.date, a.time))
                    /\ is_within_business_hours(business_hours, a.date, a.time)
                    /\ ~Overlaps(without, a.date, a.time, a.duration) )
                  => validate_appointment_request(appointments, business_hours,
                         timedelta_resolves, now, a.date, a.time, a.service) = "Accepted"

\* the reasons a request fails, each check taken on its own
FailedChecks(appts, hours, now, date, time, service) ==
    LET ok == strptime_ok(date, time)
    IN  {r \in {"UnknownService", "MalformedDateTime", "ClosedDay",
                "OutsideBookingWindow", "OutsideBusinessHours", "SlotUnavailable"} :
           \/ r = "UnknownService" /\ service \notin ServiceKeys
           \/ r = "MalformedDateTime" /\ ~ok
           \/ r = "ClosedDay" /\ ok /\ hours[day_name(date)].start = CLOSED
           \/ r = "OutsideBookingWindow" /\ ok
                 /\ ~(now + MIN_BOOKING_ADVANCE * 60 <= to_datetime(date, time)
                      /\ to_datetime(date, time) <= now + MAX_BOOKING_ADVANCE * MinutesPerDay)
           \/ r = "OutsideBusinessHours" /\ ok /\ hours[day_name(date)].start # CLOSED
                 /\ ~(hours[day_name(date)].start <= time /\ time < hours[day_name(date)].end)
           \/ r = "SlotUnavailable" /\ ok /\ service \in ServiceKeys
                 /\ Overlaps(appts, date, time, SERVICES[service].duration)}

CheckOrder == <<"UnknownService", "MalformedDateTime", "ClosedDay",
                "OutsideBookingWindow", "OutsideBusinessHours", "SlotUnavailable">>

FirstFailure(failed) ==
    IF failed = {} THEN "Accepted"
    ELSE CheckOrder[CHOOSE i \in 1..Len(CheckOrder) :
                        CheckOrder[i] \in failed
                        /\ \A j \in 1..(i-1) : CheckOrder[j] \notin failed]

(* C8: the validator returns the earliest failing reason in the order       *)
(* UnknownService, MalformedDateTime, ClosedDay, OutsideBookingWindow,      *)
(* OutsideBusinessHours, SlotUnavailable, and accepts iff no check fails.   *)
C8_FirstFailingReason ==
    IsValidate =>
        ret.val = FirstFailure(FailedChecks(appointments, business_hours, ret.now,
                                            ret.date, ret.time, ret.service))

(* C9: the overlap check reports a conflict iff some non-cancelled          *)
(* appointment of the date with interval [c, d) has t < d and c < t + dur;  *)
(* touching intervals are not a conflict.                                   *)
C9_OverlapIff ==
    IsCheck =>
        /\ (ret.val = "False") = Overlaps(appointments, ret.date, ret.time, ret.duration)
        /\ (ret.val = "True") = ~Overlaps(appointments, ret.date, ret.time, ret.duration)

(* C10: validate_appointment_request returns acceptance or a rejection      *)
(* reason for every input and store content; it never raises.               *)
C10_NeverRaises ==
    IsValidate =>
        ret.val \in {"Accepted", "UnknownService", "MalformedDateTime", "ClosedDay",
                     "OutsideBookingWindow", "OutsideBusinessHours", "SlotUnavailable"}

(* C11: for a request that passes the service, format and business-day     *)
(* checks, the validator answers OutsideBookingWindow iff the requested     *)
(* moment is before now + MIN_BOOKING_ADVANCE hours or after                *)
(* now + MAX_BOOKING_ADVANCE days; a request exactly on either bound is not *)
(* rejected for the window.                                                 *)
C11_WindowInclusive ==
    ( /\ IsValidate
      /\ ret.service \in ServiceKeys
      /\ strptime_ok(ret.date, ret.time)
      /\ business_hours[day_name(ret.date)].start # CLOSED )
    => LET when == ret.date * MinutesPerDay + ret.time
       IN  (ret.val = "OutsideBookingWindow")
             = ( \/ when < ret.now + MIN_BOOKING_ADVANCE * 60
                 \/ when > ret.now + MAX_BOOKING_ADVANCE * MinutesPerDay )

\* a request exactly MIN_BOOKING_ADVANCE hours after now, on a business day,
\* was not rejected for the window
C11_Witness ==
    /\ IsValidate /\ ret.service \in ServiceKeys /\ strptime_ok(ret.date, ret.time)
    /\ business_hours[day_name(ret.date)].start # CLOSED
    /\ ret.date * MinutesPerDay + ret.time = ret.now + MIN_BOOKING_ADVANCE * 60
    /\ ret.val # "OutsideBookingWindow"

(* C12: for a request on a business day inside the booking window (known   *)
(* service, well-formed date and time) the validator answers                *)
(* OutsideBusinessHours iff the time of day t has t < open or t >= close:   *)
(* t = open passes the check and t = close fails it.                        *)
C12_HoursHalfOpen ==
    ( /\ IsValidate
      /\ ret.service \in ServiceKeys
      /\ strptime_ok(ret.date, ret.time)
      /\ business_hours[day_name(ret.date)].start # CLOSED
      /\ ret.now + MIN_BOOKING_ADVANCE * 60 <= ret.date * MinutesPerDay + ret.time
      /\ ret.date * MinutesPerDay + ret.time <= ret.now + MAX_BOOKING_ADVANCE * MinutesPerDay )
    => (ret.val = "OutsideBusinessHours")
         = ( \/ ret.time < business_hours[day_name(ret.date)].start
             \/ ret.time >= business_hours[day_name(ret.date)].end )

\* a request at the closing time of a business day, inside the window, was
\* answered OutsideBusinessHours
C12_Witness ==
    /\ IsValidate /\ ret.service \in ServiceKeys /\ strptime_ok(ret.date, ret.time)
    /\ business_hours[day_name(ret.date)].start # CLOSED
    /\ ret.time = business_hours[day_name(ret.date)].end
    /\ ret.val = "OutsideBusinessHours"

IsGetDates == ret.op = "get_available_dates"

(* C13: on a date whose weekday is configured as closed, whatever the store *)
(* holds, get_available_slots returns nothing, the date is in no result of  *)
(* get_available_dates, and a request with a known service and a            *)
(* well-formed date and time is answered ClosedDay.                         *)
C13_ClosedDayNoAvailability ==
    /\ (IsGetSlots /\ ret.date >= 0 /\ business_hours[day_name(ret.date)].start = CLOSED)
          => ret.val = <<>>
    /\ IsGetDates =>
          \A i \in 1..Len(ret.val) : business_hours[day_name(ret.val[i])].start # CLOSED
    /\ ( /\ IsValidate /\ ret.service \in ServiceKeys /\ strptime_ok(ret.date, ret.time)
         /\ business_hours[day_name(ret.date)].start = CLOSED )
          => ret.val = "ClosedDay"

\* with tomorrow closed, the dates of the next three days were asked for and
\* the two open ones came back
C13_Witness ==
    /\ IsGetDates /\ ret.days_ahead = 3
    /\ business_hours[day_name(1)].start = CLOSED
    /\ ret.val = <<2, 3>>

(* C14: get_available_dates(n) returns, in ascending order, exactly the     *)
(* dates among today+1 .. today+n that are business days and for which      *)
(* get_available_slots is not empty: never today, never a date past         *)
(* today+n, never a fully booked business day.                              *)
C14_AvailableDatesExact ==
    IsGetDates =>
        ret.val = Ascending({d \in 1..ret.days_ahead :
                               /\ business_hours[day_name(d)].start # CLOSED
                               /\ Scheduler_get_available_slots(appointments, business_hours, d)
                                     # <<>>})

\* tomorrow is a business day whose only slot is booked; the dates of the
\* next three days came back without it
C14_Witness ==
    /\ IsGetDates /\ ret.days_ahead = 3
    /\ business_hours[day_name(1)].start # CLOSED
    /\ Scheduler_get_available_slots(appointments, business_hours, 1) = <<>>
    /\ \E a \in ActiveOn(appointments, 1) : TRUE
    /\ ret.val = <<2, 3>>

IsSuggest == ret.op = "suggest_alternative_times"

\* how many free slots come before x when ordered by distance to the
\* requested time, equal distances in chronological order
RankByDistance(F, x, t) ==
    Cardinality({y \in F : \/ (IF y >= t THEN y - t ELSE t - y) < (IF x >= t THEN x - t ELSE t - x)
                           \/ /\ (IF y >= t THEN y - t ELSE t - y) = (IF x >= t THEN x - t ELSE t - x)
                              /\ y < x})

(* C15: when the requested time is among the free slots of the date,       *)
(* suggest_alternative_times returns that time alone; otherwise it returns  *)
(* the first count free slots in the order of ascending distance in minutes *)
(* to the requested time, equal distances in chronological order.           *)
C15_AlternativesByDistance ==
    (IsSuggest /\ ret.time >= 0) =>
        LET free == Scheduler_get_available_slots(appointments, business_hours, ret.date)
            F    == Range(free)
            n    == IF ret.count < Len(free) THEN ret.count ELSE Len(free)
        IN  IF ret.time \in F
            THEN ret.val = <<ret.time>>
            ELSE /\ Len(ret.val) = n
                 /\ \A i \in 1..n :
                       ret.val[i] \in F /\ RankByDistance(F, ret.val[i], ret.time) = i - 1

\* three alternatives were returned of which the second and third are at
\* the same distance from the requested time, the earlier one first
C15_Witness ==
    /\ IsSuggest /\ ret.time >= 0 /\ ret.count = 3 /\ Len(ret.val) = 3
    /\ ret.val[2] < ret.time /\ ret.val[3] > ret.time
    /\ ret.time - ret.val[2] = ret.val[3] - ret.time
    /\ ActiveOn(appointments, ret.date) # {}

\* the scenario: Monday hours 09:00-20:00, slots of 30 minutes, and on the
\* Monday `date` one appointment that is not cancelled, 10:00 for 60 minutes
Scenario(date) ==
    /\ date >= 0
    /\ day_name(date) = "monday"
    /\ business_hours.monday = [start |-> 540, end |-> 1200]
    /\ SLOT_DURATION = 30
    /\ Cardinality(ActiveOn(appointments, date)) = 1
    /\ \A a \in ActiveOn(appointments, date) : a.time = 600 /\ a.duration = 60

\* the free slots of the scenario: without 10:00 and 10:30, with 09:00, 09:30, 11:00
ScenarioSlots ==
    (IsGetSlots /\ Scenario(ret.date)) =>
        /\ \A i \in 1..Len(ret.val) : ret.val[i] \notin {600, 630}
        /\ \A t \in {540, 570, 660} : \E i \in 1..Len(ret.val) : ret.val[i] = t

ScenarioRequest ==
    /\ IsValidate /\ Scenario(ret.date) /\ ret.time = 600 /\ ret.service \in ServiceKeys
    /\ ret.now + MIN_BOOKING_ADVANCE * 60 <= ret.date * MinutesPerDay + ret.time
    /\ ret.date * MinutesPerDay + ret.time <= ret.now + MAX_BOOKING_ADVANCE * MinutesPerDay

ScenarioSuggest == IsSuggest /\ Scenario(ret.date) /\ ret.time = 600 /\ ret.count = 3

LostFromMemory ==
    \E a \in Range(appointments_file.data) :
        \A i \in 1..Len(appointments) : appointments[i].id # a.id

(* C17: a save that failed is reported to the caller of create or cancel as *)
(* an error, a load that failed is reported as an error, and no query       *)
(* (get_available_slots, check_availability, validate) is answered from a   *)
(* list that has lost appointments the storage holds.                       *)
C17_StoreFaultsSurface ==
    /\ (ret.op \in {"create_appointment", "cancel_appointment"} /\ ret.save # "written")
          => ret.reported = "error"
    /\ (ret.op = "load_appointments" /\ ret.load # "read") => ret.reported = "error"
    /\ (IsGetSlots \/ IsCheck \/ IsValidate) => ~LostFromMemory

EngineOps ==
    {"is_business_day", "get_business_hours", "get_available_slots", "get_available_dates",
     "validate_appointment_request", "suggest_alternative_times", "calculate_deposit"}

(* C19: a call of is_business_day, get_business_hours, get_available_slots, *)
(* get_available_dates, validate_appointment_request,                       *)
(* suggest_alternative_times or calculate_deposit leaves the stored         *)
(* appointments, every field of each, and the appointments file as they     *)
(* were, whatever it returns.                                               *)
C19_EngineReadOnly ==
    [][ret'.op \in EngineOps =>
          /\ appointments' = appointments
          /\ appointments_file' = appointments_file]_vars

\* get_available_slots has answered with free slots for a date on which the
\* store holds a cancelled and a non-cancelled appointment
C19_Witness ==
    /\ IsGetSlots /\ ret.val # <<>>
    /\ \E i, j \in 1..Len(appointments) :
          /\ appointments[i].date = ret.date /\ appointments[i].status = "cancelled"
          /\ appointments[j].date = ret.date /\ appointments[j].status # "cancelled"

(* C20: an appointment whose status is cancelled or completed keeps that    *)
(* status through every later operation: payment webhook, cancel,          *)
(* complete, update.                                                        *)
C20_TerminalStatuses ==
    [][\A i \in 1..Len(appointments) :
          appointments[i].status \in {"cancelled", "completed"} =>
              \E j \in 1..Len(appointments') :
                  /\ appointments'[j].id = appointments[i].id
                  /\ appointments'[j].status = appointments[i].status]_vars

\* the ids of the appointments of a list
Ids(appts) == {appts[i].id : i \in 1..Len(appts)}

IsDepositUnder == ret.op = "calculate_deposit" /\ "settings" \in DOMAIN ret

(* C22: the deposit is 0 when deposits are disabled or the service is not   *)
(* in the required services, whatever the price; otherwise the fixed amount *)
(* for type fixed and price * percentage rounded to the cent for type       *)
(* percentage (price 90.00 at 0.25 gives 22.50); it is never negative and,  *)
(* for type percentage, never more than the price.                          *)
C22_DepositRule ==
    IsDepositUnder =>
        LET c == ret.settings
            charged == c.enabled /\ ret.service \in c.required
        IN  /\ ~charged => ret.val = 0
            /\ (charged /\ c.type = "fixed") => ret.val = c.amount
            /\ (charged /\ c.type = "percentage") =>
                   /\ 100 * ret.val - ret.price * c.percentage \in -50..50
                   /\ ret.val <= ret.price
            /\ (charged /\ c.type = "percentage" /\ ret.price = 9000 /\ c.percentage = 25)
                   => ret.val = 2250
            /\ ret.val >= 0

\* a percentage deposit of 22.50 was computed for a price of 90.00
C22_Witness ==
    /\ IsDepositUnder /\ ret.settings.enabled /\ ret.service \in ret.settings.required
    /\ ret.settings.type = "percentage" /\ ret.settings.percentage = 25
    /\ ret.price = 9000 /\ ret.val = 2250

Stages ==
    <<"greeting", "collecting_service", "collecting_date", "collecting_time",
      "awaiting_deposit", "confirmed">>
StageRank(stage) == CHOOSE i \in 1..Len(Stages) : Stages[i] = stage

Appended(p) ==
    IF Len(appointments') > Len(appointments)
          /\ appointments'[Len(appointments')].client_phone = p
    THEN <<appointments'[Len(appointments')]>> ELSE <<>>

IsAccepted == IsValidate /\ ret.val = "Accepted"

DEFAULT_COUNT == 3

Moved(i) ==
    /\ i <= Len(appointments')
    /\ appointments'[i].id = appointments[i].id
    /\ <<appointments'[i].date, appointments'[i].time>>
          # <<appointments[i].date, appointments[i].time>>

\* the stored appointments without the one at position i
Others(i) == SelectSeq(appointments, LAMBDA a : a.id # appointments[i].id)

====
